---- MODULE Spec2Model ----
(***************************************************************************)
(* Model of the answer-chain orchestration of src/bot/core.py and the      *)
(* chain builders of src/bot/bot.py.                                       *)
(*                                                                         *)
(* Strings that the code only copies (titles, prompts, model names) are    *)
(* TLA+ strings or tuples of strings; strings that the code takes apart    *)
(* (area, subtopic, project name) are sequences of one-character strings.  *)
(* A text built by concatenation is the sequence of its pieces.            *)
(* Python's None is the empty tuple <<>> for text-valued fields and 0 for  *)
(* references (parent link, response object, lock holder).                 *)
(***************************************************************************)
EXTENDS Integers, Sequences, FiniteSets, TLC

\* ---------------------------------------------------------------- bounds
\* number of calls (answer_for_project or callnode) made to the program
MaxCalls == 2
\* largest reading of time.time(); the clock stops advancing there
MaxClock == 1

Calls == 1..MaxCalls

\* ------------------------------------------------------- program constants
DEFAULT_MODEL == "gpt-4.5-preview"

\* texts returned by the completion service, by the order of the requests
Letters == <<"A", "B", "C", "D", "E", "F", "G", "H", "I", "J", "K", "L", "M",
             "N", "O", "P", "Q", "R", "S", "T", "U", "V", "W", "X", "Y", "Z">>

OutputText(k) == Letters[((k - 1) % Len(Letters)) + 1]

\* ------------------------------------------------------------------ Node
\* parent is the position of the parent in the chain, 0 for None;
\* response is the handle of the response object, 0 while the attribute
\* has never been assigned.
Node(id, title, question, parent, is_instruction, model) ==
    [id |-> id, title |-> title, model |-> model, question |-> question,
     is_instruction |-> is_instruction,
     response_content |-> "", response_id |-> 0, response |-> 0,
     last_answered |-> -1, time_taken |-> 0, parent |-> parent]

\* Node.to_json
to_json(chain, i) ==
    [model |-> chain[i].model, title |-> chain[i].title,
     question |-> chain[i].question,
     parentid |-> IF chain[i].parent # 0 THEN chain[chain[i].parent].id
                  ELSE "None",
     is_instruction |-> chain[i].is_instruction,
     last_answered |-> chain[i].last_answered,
     time_taken |-> chain[i].time_taken,
     id |-> chain[i].id,
     response |-> chain[i].response_content]

\* --------------------------------------------------------------- Project
Project(company, name, timeline) ==
    [company |-> company, name |-> name, timeline |-> timeline,
     description |-> ""]

\* ------------------------------------------------------- chain builders
combined_round == "combined_round"

\* the last piece is a plain string literal in the source, not an f-string
instructions_for_question(question, project) ==
    Node("root", "",
         <<combined_round, "pick examples from the", project.name,
           "Its timeline is:", project.timeline,
           "Answer this question: {question.content}">>,
         0, TRUE, DEFAULT_MODEL)

\* the root of the one-shot answer built as an instruction carrier
instructions_for_question2_as_instruction(question, project) ==
    Node("root", "OneShotAnswer",
         <<combined_round, "Answer this question:", question.content,
           "Use the following format when answering:", "GPSF",
           "pick examples from the", project.name,
           "Its timeline and details are:", project.timeline>>,
         0, TRUE, DEFAULT_MODEL)

instructions_for_question2(question, project) ==
    Node("root", "OneShotAnswer",
         <<combined_round, "Answer this question:", question.content,
           "Use the following format when answering:", "GPSF",
           "pick examples from the", project.name,
           "Its timeline and details are:", project.timeline>>,
         0, FALSE, DEFAULT_MODEL)

\* the chain as the sequence root .. leaf; the builder returns the leaf,
\* which is the last element
nodes_for_chained_answer(question, project) ==
    << instructions_for_question(question, project),
       Node("oneminute", "One minute answer", <<"Now give a 1 minute version">>,
            1, FALSE, DEFAULT_MODEL),
       Node("twominute", "Two Minute Answer", <<"Great now come up with a 2 minute version">>,
            2, FALSE, DEFAULT_MODEL),
       Node("detailed", "Detailed Response", <<"Great now give me a detailed five minute version">>,
            3, FALSE, "gpt-4.5-preview"),
       Node("flowchart", "Summary Flowchart", <<"Great now can you also give me a summary flowchart diagram">>,
            4, FALSE, "gpt-4.5-preview") >>

nodes_for_answer_with_review(question, project) ==
    << instructions_for_question2(question, project),
       Node("reviewed", "Reviewed Answer", <<"Great now I want you to play the role of the reviewer">>,
            1, FALSE, DEFAULT_MODEL) >>

Builders == {"chained", "review"}

\* the chain instruction -> oneminute -> twominute: root, node1 and node2
\* of nodes_for_chained_answer, with node2 as the leaf
nodes_for_two_minute_answer(question, project) ==
    SubSeq(nodes_for_chained_answer(question, project), 1, 3)

BuildChain(kind, question, project) ==
    IF kind = "chained" THEN nodes_for_chained_answer(question, project)
    ELSE IF kind = "review"
         THEN nodes_for_answer_with_review(question, project)
         ELSE nodes_for_two_minute_answer(question, project)

\* -------------------------------------------------- names, ids and paths
RECURSIVE SplitOnSpace(_, _, _)
\* str.split(" ") followed by the filter "if p.strip()": the non-empty
\* pieces between spaces
SplitOnSpace(s, cur, acc) ==
    IF s = <<>> THEN (IF cur = <<>> THEN acc ELSE Append(acc, cur))
    ELSE IF Head(s) = " "
         THEN SplitOnSpace(Tail(s), <<>>, IF cur = <<>> THEN acc ELSE Append(acc, cur))
         ELSE SplitOnSpace(Tail(s), Append(cur, Head(s)), acc)

RECURSIVE Join(_, _)
Join(pieces, sep) ==
    IF pieces = <<>> THEN <<>>
    ELSE IF Len(pieces) = 1 THEN pieces[1]
    ELSE pieces[1] \o sep \o Join(Tail(pieces), sep)

\* Question.base_id
base_id(q) ==
    << Join(SplitOnSpace(q.area, <<>>, <<>>), <<"_">>),
       Join(SplitOnSpace(q.subtopic, <<>>, <<>>), <<"_">>),
       q.id >>

\* the answer id of answer_for_project and _answer_finished:
\* base_id + "/" + project.name
AnswerId(q, pname) == << base_id(q), pname >>

\* Question.folder_for_project
folder_for_project(q, pname) ==
    << q.rootfolder,
       << Join(SplitOnSpace(q.area, <<>>, <<>>), <<"_">>),
          Join(SplitOnSpace(q.subtopic, <<>>, <<>>), <<"_">>),
          q.id >>,
       Join(SplitOnSpace(pname, <<>>, <<>>), <<>>) >>

\* Question.path_for_project_file
path_for_project_file(q, pname, name, extension) ==
    << folder_for_project(q, pname),
       IF extension = "" THEN <<name>> ELSE <<name, ".", extension>> >>

\* ------------------------------------------------------------------ state
VARIABLES
    questions,  \* Question objects: fields and registered projects
    chains,     \* leafnodes: per (question object, project name) the chain
    lock,       \* Question.lock per object: 0 free, c caller c, -c task c
    threads,    \* Question.threads, one mapping for the class: the set of
                \* its items <<answer id, task>>
    clock,      \* the last reading of time.time()
    files,      \* the file system: path -> content
    log,        \* requests received by the completion service, in order
    cblog,      \* callback invocations, in order
    cpc,        \* position of caller c inside answer_for_project
    cres,       \* what the call of caller c returned
    ctgt,       \* (question object, project name) of call c
    tpc,        \* position of the thread of control running callnode for c
    tmode,      \* "bg": thread of _answer_for_project, "direct": plain call
    tcb,        \* whether callnode was given a callback
    tnode,      \* the node callnode was called on
    tt,         \* callnode's t
    stack,      \* callnode frames, innermost first
    tstart,     \* start_time of the innermost frame
    treq,       \* position in log of the request in flight
    tcur,       \* curr of the loop in _answer_finished
    terr        \* why the thread of control died

vars == << questions, chains, lock, threads, clock, files, log, cblog,
           cpc, cres, ctgt, tpc, tmode, tcb, tnode, tt, stack, tstart,
           treq, tcur, terr >>

cvars == << cpc, cres, ctgt >>
tvars == << tpc, tmode, tcb, tnode, tt, stack, tstart, treq, tcur, terr >>

\* Question(rootfolder, area, subtopic, content, id)
Question(rootfolder, area, subtopic, content, id, projects) ==
    [rootfolder |-> rootfolder, area |-> area, subtopic |-> subtopic,
     content |-> content, id |-> id, projects |-> projects]

\* Question.to_json
question_to_json(q) ==
    [qinfo |-> [area |-> q.area, subtopic |-> q.subtopic, id |-> q.id,
                tags |-> <<>>, content |-> q.content]]

Targets == DOMAIN chains

\* time.time(): the clock is read after it advanced by nothing or by one.
\* Time passes between calls (line 53) and while a request is in flight
\* (line 78); start_time (line 69) and the second reading of line 79 are
\* taken at once after the reading before them.
Readings(from) == {from} \cup (IF from < MaxClock THEN {from + 1} ELSE {})

\* ------------------------------------------------------------------- Init
\* Session.load_questions: every question is constructed and every project
\* is added with a freshly built chain (add_project), the lock is created
\* and the project folder exists.
\* projects.MemoryAutoScaler; its name "Memory Autoscaler" is kept as the
\* initials of its two words and the space between them
MemoryAutoScaler == Project("Google", <<"M", " ", "A">>, "timeline")

SessionQuestion ==
    Question("./responses", <<"a", " ", "b">>, <<"s">>, "What?", "0",
             << MemoryAutoScaler >>)

\* projects.JobSchedulerService, "Job Scheduler Service"
JobSchedulerService == Project("Google", <<"J", " ", "S", " ", "S">>, "timeline")

\* the projects a caller can name
Catalog == {MemoryAutoScaler, JobSchedulerService}

\* the second question of the same area and subtopic
SecondQuestion ==
    Question("./responses", <<"a", " ", "b">>, <<"s">>, "Why?", "1",
             << MemoryAutoScaler >>)

\* the project that add_project stored last under a name
ProjectNamed(projects, pname) ==
    projects[CHOOSE i \in 1..Len(projects) :
                /\ projects[i].name = pname
                /\ \A j \in (i + 1)..Len(projects) :
                      projects[j].name # pname]

InitWith(qs, kind) ==
    /\ questions = qs
    /\ chains = [tg \in UNION {{<<qo, qs[qo].projects[i].name>> :
                                    i \in 1..Len(qs[qo].projects)} :
                                 qo \in DOMAIN qs} |->
                   BuildChain(kind, qs[tg[1]],
                              ProjectNamed(qs[tg[1]].projects, tg[2]))]
    /\ lock = [qo \in DOMAIN qs |-> 0]
    /\ threads = {}
    /\ clock = 0
    /\ files = << >>
    /\ log = << >>
    /\ cblog = << >>
    /\ cpc = [c \in Calls |-> "idle"]
    /\ cres = [c \in Calls |-> "none"]
    /\ ctgt = [c \in Calls |-> << >>]
    /\ tpc = [c \in Calls |-> "idle"]
    /\ tmode = [c \in Calls |-> "none"]
    /\ tcb = [c \in Calls |-> FALSE]
    /\ tnode = [c \in Calls |-> 0]
    /\ tt = [c \in Calls |-> -1]
    /\ stack = [c \in Calls |-> << >>]
    /\ tstart = [c \in Calls |-> 0]
    /\ treq = [c \in Calls |-> 0]
    /\ tcur = [c \in Calls |-> 0]
    /\ terr = [c \in Calls |-> "none"]

Init == \E kind \in Builders : InitWith(1 :> SessionQuestion, kind)

\* ------------------------------------------------- helpers on the state
\* the node holds a response: last_answered was set by line 79
IsAnswered(node) == node.last_answered >= 0

\* answerid in self.threads
InThreads(id) == \E e \in threads : e[1] = id

\* self.threads[answerid] = thread
SetThread(id, c) == {e \in threads : e[1] # id} \cup {<<id, c>>}

\* del self.threads[answerid]
DelThread(id) == {e \in threads : e[1] # id}

QuestionOf(c) == questions[ctgt[c][1]]
ProjectNameOf(c) == ctgt[c][2]
ChainOf(c) == chains[ctgt[c]]
AnswerIdOf(c) == AnswerId(QuestionOf(c), ProjectNameOf(c))

\* open(fname, "w") ... write(content)
WriteFile(fname, content) ==
    [p \in DOMAIN files \cup {fname} |->
        IF p = fname THEN content ELSE files[p]]

\* calls are numbered in the order in which they are made
Begun(c) == IF c \in Calls THEN cpc[c] # "idle" ELSE TRUE

\* ---------------------------------------------------- answer_for_project
\* lines 157-160: the answer id and the leaf are looked up
AnswerForProject(c) ==
    /\ cpc[c] = "idle"
    /\ Begun(c - 1)
    /\ \E tg \in Targets :
         /\ ctgt' = [ctgt EXCEPT ![c] = tg]
         /\ cpc' = [cpc EXCEPT ![c] = "acquire"]
    /\ UNCHANGED << questions, chains, lock, threads, clock, files, log,
                    cblog, cres, tvars >>

\* line 160 for a project that add_project never stored: the lookup in
\* self.leafnodes finds the name of the project among its keys
HasLeaf(qo, pname) == << qo, pname >> \in DOMAIN chains

\* line 160 looking the leaf up only once the lock is held
AnswerForUnknownProject_inside_lock(c) ==
    /\ cpc[c] = "idle"
    /\ Begun(c - 1)
    /\ \E qo \in DOMAIN questions : \E project \in Catalog :
         /\ ~ HasLeaf(qo, project.name)
         /\ ctgt' = [ctgt EXCEPT ![c] = << qo, project.name >>]
    /\ cpc' = [cpc EXCEPT ![c] = "acquire"]
    /\ UNCHANGED << questions, chains, lock, threads, clock, files, log,
                    cblog, cres, tvars >>

\* lines 157-160 for a project whose name is not a key of self.leafnodes:
\* line 160 raises KeyError
AnswerForUnknownProject(c) ==
    /\ cpc[c] = "idle"
    /\ Begun(c - 1)
    /\ \E qo \in DOMAIN questions : \E project \in Catalog :
         /\ ~ HasLeaf(qo, project.name)
         /\ ctgt' = [ctgt EXCEPT ![c] = << qo, project.name >>]
    /\ cpc' = [cpc EXCEPT ![c] = "raised"]
    /\ cres' = [cres EXCEPT ![c] = "KeyError"]
    /\ UNCHANGED << questions, chains, lock, threads, clock, files, log,
                    cblog, tvars >>

\* line 162: with self.lock
AcquireLock(c) ==
    /\ cpc[c] = "acquire"
    /\ lock[ctgt[c][1]] = 0
    /\ lock' = [lock EXCEPT ![ctgt[c][1]] = c]
    /\ cpc' = [cpc EXCEPT ![c] = "check"]
    /\ UNCHANGED << questions, chains, threads, clock, files, log, cblog,
                    cres, ctgt, tvars >>

\* the check of line 163 left out
AlreadyAnswering_never(id) == FALSE

\* line 163: if answerid in self.threads
AlreadyAnswering(id) == InThreads(id)

\* lines 163-165: print("Already answering: ", answerid); return
CheckThreads(c) ==
    /\ cpc[c] = "check"
    /\ IF AlreadyAnswering(AnswerIdOf(c))
       THEN /\ cpc' = [cpc EXCEPT ![c] = "release"]
            /\ cres' = [cres EXCEPT ![c] = "already"]
       ELSE /\ cpc' = [cpc EXCEPT ![c] = "register"]
            /\ cres' = cres
    /\ UNCHANGED << questions, chains, lock, threads, clock, files, log,
                    cblog, ctgt, tvars >>

\* lines 167-169: the thread is created, registered and started
StartThread(c) ==
    /\ cpc[c] = "register"
    /\ threads' = SetThread(AnswerIdOf(c), c)
    /\ tpc' = [tpc EXCEPT ![c] = "enter"]
    /\ tmode' = [tmode EXCEPT ![c] = "bg"]
    /\ tcb' = [tcb EXCEPT ![c] = TRUE]
    /\ tnode' = [tnode EXCEPT ![c] = Len(ChainOf(c))]
    /\ tt' = [tt EXCEPT ![c] = -1]
    /\ cpc' = [cpc EXCEPT ![c] = "release"]
    /\ cres' = [cres EXCEPT ![c] = "started"]
    /\ UNCHANGED << questions, chains, lock, clock, files, log, cblog, ctgt,
                    stack, tstart, treq, tcur, terr >>

\* the lock released only at the end of the block, not on the return of
\* line 165
ReleaseLock_not_on_return(c) ==
    /\ cpc[c] = "release"
    /\ lock' = [lock EXCEPT ![ctgt[c][1]] =
                  IF cres[c] = "already" THEN @ ELSE 0]
    /\ cpc' = [cpc EXCEPT ![c] = "returned"]
    /\ UNCHANGED << questions, chains, threads, clock, files, log, cblog,
                    cres, ctgt, tvars >>

\* the end of the with block, on both ways out of it
ReleaseLock(c) ==
    /\ cpc[c] = "release"
    /\ lock' = [lock EXCEPT ![ctgt[c][1]] = 0]
    /\ cpc' = [cpc EXCEPT ![c] = "returned"]
    /\ UNCHANGED << questions, chains, threads, clock, files, log, cblog,
                    cres, ctgt, tvars >>

\* --------------------------------------------------------------- callnode
\* line 56 without "and not node.parent.is_instruction"
ParentFirst_instruction_too(chain, n, t) ==
    /\ chain[n].parent # 0
    /\ chain[chain[n].parent].last_answered < t

\* line 56 with the comparison turned around
ParentFirst_fresh_only(chain, n, t) ==
    /\ chain[n].parent # 0
    /\ chain[chain[n].parent].last_answered > t
    /\ ~ chain[chain[n].parent].is_instruction

\* line 56 looking only at whether the parent was ever answered
ParentFirst_unanswered_only(chain, n, t) ==
    /\ chain[n].parent # 0
    /\ chain[chain[n].parent].last_answered < 0
    /\ ~ chain[chain[n].parent].is_instruction

\* line 56: the parent is dispatched first
ParentFirst(chain, n, t) ==
    /\ chain[n].parent # 0
    /\ chain[chain[n].parent].last_answered < t
    /\ ~ chain[chain[n].parent].is_instruction

\* lines 70-73 sending the instruction text as part of the user turn
RequestParams_instruction_as_input(chain, n) ==
    [model |-> chain[n].model,
     temperature |-> "0.7",
     input |-> IF chain[n].parent # 0 /\ chain[chain[n].parent].is_instruction
               THEN chain[chain[n].parent].question
               ELSE chain[n].question,
     instructions |-> << >>,
     previous_response_id |->
        IF chain[n].parent # 0 /\ ~ chain[chain[n].parent].is_instruction
        THEN chain[chain[n].parent].response ELSE 0]

\* lines 70-75 passing the instructions of the chain's instruction carrier
\* along with the reference to the parent's response
RequestParams_instructions_always(chain, n) ==
    [model |-> chain[n].model,
     temperature |-> "0.7",
     input |-> chain[n].question,
     instructions |->
        IF chain[n].parent # 0 /\ chain[1].is_instruction
        THEN chain[1].question ELSE << >>,
     previous_response_id |->
        IF chain[n].parent # 0 /\ ~ chain[chain[n].parent].is_instruction
        THEN chain[chain[n].parent].response ELSE 0]

\* lines 60-75: the parameters of the request; <<>> and 0 for a parameter
\* that is not passed
RequestParams(chain, n) ==
    [model |-> chain[n].model,
     temperature |-> "0.7",
     input |-> chain[n].question,
     instructions |->
        IF chain[n].parent # 0 /\ chain[chain[n].parent].is_instruction
        THEN chain[chain[n].parent].question ELSE << >>,
     previous_response_id |->
        IF chain[n].parent # 0 /\ ~ chain[chain[n].parent].is_instruction
        THEN chain[chain[n].parent].response ELSE 0]

\* line 75 reads node.parent.response, which exists only once the parent
\* has been answered
ParentResponseMissing(chain, n) ==
    /\ chain[n].parent # 0
    /\ ~ chain[chain[n].parent].is_instruction
    /\ chain[chain[n].parent].response = 0

\* where the thread of control goes when the outermost callnode returns
AfterCallnode(c) == IF tmode[c] = "bg" THEN "fin_acquire" ELSE "done"

\* return node.response: the frame is popped; the frame below continues at
\* line 60
ReturnTo(c) == IF Len(stack[c]) > 1 THEN "request" ELSE AfterCallnode(c)

RECURSIVE Frames_rereads(_, _, _)
\* line 53 reading the clock in every nested call: only the outermost
\* call compares with the t it was given
Frames_rereads(chain, frames, t) ==
    IF ParentFirst(chain, Head(frames), IF Len(frames) = 1 THEN t ELSE clock)
    THEN Frames_rereads(chain, << chain[Head(frames)].parent >> \o frames, t)
    ELSE frames

RECURSIVE Frames(_, _, _)
\* lines 56-57: callnode(node.parent, t, callback), entered again and again
\* with the same t >= 0; the frames of the nested calls, innermost first
Frames(chain, frames, t) ==
    IF ParentFirst(chain, Head(frames), t)
    THEN Frames(chain, << chain[Head(frames)].parent >> \o frames, t)
    ELSE frames

\* lines 53-57: if t < 0: t = time.time(), then the nested calls for the
\* ancestors, down to the first node that is sent
Enter(c) ==
    /\ tpc[c] = "enter"
    /\ \E now \in (IF tt[c] < 0 THEN Readings(clock) ELSE {clock}) :
         /\ clock' = now
         /\ tt' = [tt EXCEPT ![c] = IF tt[c] < 0 THEN now ELSE tt[c]]
         /\ stack' = [stack EXCEPT ![c] =
               Frames(ChainOf(c), << tnode[c] >>,
                      IF tt[c] < 0 THEN now ELSE tt[c])]
    /\ tpc' = [tpc EXCEPT ![c] = "request"]
    /\ UNCHANGED << questions, chains, lock, threads, files, log, cblog,
                    cvars, tmode, tcb, tnode, tstart, treq, tcur, terr >>

\* lines 60-79 skipped for a node that has been answered
SendRequest_skips_answered(c) ==
    /\ tpc[c] = "request"
    /\ LET n == Head(stack[c]) IN
         /\ clock' = clock
         /\ tstart' = [tstart EXCEPT ![c] = clock]
         /\ IF IsAnswered(ChainOf(c)[n])
            THEN /\ tpc' = [tpc EXCEPT ![c] = ReturnTo(c)]
                 /\ stack' = [stack EXCEPT ![c] = Tail(@)]
                 /\ UNCHANGED << log, treq, terr >>
            ELSE /\ log' = Append(log, [task |-> c, tgt |-> ctgt[c],
                                        node |-> n,
                                        params |-> RequestParams(ChainOf(c), n)])
                 /\ treq' = [treq EXCEPT ![c] = Len(log) + 1]
                 /\ tpc' = [tpc EXCEPT ![c] = "await"]
                 /\ UNCHANGED << stack, terr >>
    /\ UNCHANGED << questions, chains, lock, threads, files, cblog, cvars,
                    tmode, tcb, tnode, tt, tcur >>

\* lines 60-79 guarded by the comparison of line 56, applied to the node
\* itself
SendRequest_skips_fresh(c) ==
    /\ tpc[c] = "request"
    /\ LET n == Head(stack[c]) IN
         /\ clock' = clock
         /\ tstart' = [tstart EXCEPT ![c] = clock]
         /\ IF ~ (ChainOf(c)[n].last_answered < tt[c])
            THEN /\ tpc' = [tpc EXCEPT ![c] = ReturnTo(c)]
                 /\ stack' = [stack EXCEPT ![c] = Tail(@)]
                 /\ UNCHANGED << log, treq, terr >>
            ELSE /\ log' = Append(log, [task |-> c, tgt |-> ctgt[c],
                                        node |-> n,
                                        params |-> RequestParams(ChainOf(c), n)])
                 /\ treq' = [treq EXCEPT ![c] = Len(log) + 1]
                 /\ tpc' = [tpc EXCEPT ![c] = "await"]
                 /\ UNCHANGED << stack, terr >>
    /\ UNCHANGED << questions, chains, lock, threads, files, cblog, cvars,
                    tmode, tcb, tnode, tt, tcur >>

\* lines 60-76: start_time is read, the parameters are put together and
\* the request is sent; line 75 raises AttributeError when the parent has
\* no response attribute
SendRequest(c) ==
    /\ tpc[c] = "request"
    /\ LET n == Head(stack[c]) IN
         /\ clock' = clock
         /\ tstart' = [tstart EXCEPT ![c] = clock]
         /\ IF ParentResponseMissing(ChainOf(c), n)
            THEN /\ tpc' = [tpc EXCEPT ![c] = "dead"]
                 /\ terr' = [terr EXCEPT ![c] = "attribute"]
                 /\ UNCHANGED << log, treq >>
            ELSE /\ log' = Append(log, [task |-> c, tgt |-> ctgt[c],
                                        node |-> n,
                                        params |-> RequestParams(ChainOf(c), n)])
                 /\ treq' = [treq EXCEPT ![c] = Len(log) + 1]
                 /\ tpc' = [tpc EXCEPT ![c] = "await"]
                 /\ terr' = terr
    /\ UNCHANGED << questions, chains, lock, threads, files, cblog, cvars,
                    tmode, tcb, tnode, tt, stack, tcur >>

\* line 57 not handing the callback on to the call for the parent
GetResponse_callback_not_passed(c) ==
    /\ tpc[c] = "await"
    /\ LET n == Head(stack[c]) IN
       \E end \in Readings(clock) :
         /\ clock' = end
         /\ chains' = [chains EXCEPT ![ctgt[c]][n] =
               [@ EXCEPT !.response = treq[c],
                         !.response_content = OutputText(treq[c]),
                         !.time_taken = end - tstart[c],
                         !.last_answered = end]]
    /\ IF tcb[c] /\ Head(stack[c]) = tnode[c]
       THEN /\ tpc' = [tpc EXCEPT ![c] = "callback"]
            /\ stack' = stack
       ELSE /\ tpc' = [tpc EXCEPT ![c] = ReturnTo(c)]
            /\ stack' = [stack EXCEPT ![c] = Tail(@)]
    /\ UNCHANGED << questions, lock, threads, files, log, cblog, cvars,
                    tmode, tcb, tnode, tt, tstart, treq, tcur, terr >>

\* lines 76-79 and 84: the response arrives; the node's fields are set
GetResponse(c) ==
    /\ tpc[c] = "await"
    /\ LET n == Head(stack[c]) IN
       \E end \in Readings(clock) :
         /\ clock' = end
         /\ chains' = [chains EXCEPT ![ctgt[c]][n] =
               [@ EXCEPT !.response = treq[c],
                         !.response_content = OutputText(treq[c]),
                         !.time_taken = end - tstart[c],
                         !.last_answered = end]]
    /\ IF tcb[c]
       THEN /\ tpc' = [tpc EXCEPT ![c] = "callback"]
            /\ stack' = stack
       ELSE /\ tpc' = [tpc EXCEPT ![c] = ReturnTo(c)]
            /\ stack' = [stack EXCEPT ![c] = Tail(@)]
    /\ UNCHANGED << questions, lock, threads, files, log, cblog, cvars,
                    tmode, tcb, tnode, tt, tstart, treq, tcur, terr >>

\* line 76 raising with the registration cleaned up on the way out
RequestFails_deregisters(c) ==
    /\ tpc[c] = "await"
    /\ tpc' = [tpc EXCEPT ![c] = "dead"]
    /\ terr' = [terr EXCEPT ![c] = "service"]
    /\ threads' = DelThread(AnswerIdOf(c))
    /\ UNCHANGED << questions, chains, lock, clock, files, log,
                    cblog, cvars, tmode, tcb, tnode, tt, stack, tstart,
                    treq, tcur >>

\* line 76 raising caught and the request sent again
RequestFails_retries(c) ==
    /\ tpc[c] = "await"
    /\ tpc' = [tpc EXCEPT ![c] = "request"]
    /\ terr' = [terr EXCEPT ![c] = "service"]
    /\ UNCHANGED << questions, chains, lock, threads, clock, files, log,
                    cblog, cvars, tmode, tcb, tnode, tt, stack, tstart,
                    treq, tcur >>

\* line 76 raising caught by the thread, which goes on to _answer_finished
RequestFails_finishes(c) ==
    /\ tpc[c] = "await"
    /\ tpc' = [tpc EXCEPT ![c] = AfterCallnode(c)]
    /\ terr' = [terr EXCEPT ![c] = "service"]
    /\ UNCHANGED << questions, chains, lock, threads, clock, files, log,
                    cblog, cvars, tmode, tcb, tnode, tt, stack, tstart,
                    treq, tcur >>

\* line 76 raising with line 79 still recording the time of the attempt
RequestFails_stamps(c) ==
    /\ tpc[c] = "await"
    /\ tpc' = [tpc EXCEPT ![c] = "dead"]
    /\ terr' = [terr EXCEPT ![c] = "service"]
    /\ chains' = [chains EXCEPT ![ctgt[c]][Head(stack[c])].last_answered =
                                                                     clock]
    /\ UNCHANGED << questions, lock, threads, clock, files, log,
                    cblog, cvars, tmode, tcb, tnode, tt, stack, tstart,
                    treq, tcur >>

\* line 76 raises: the exception leaves every callnode frame
RequestFails(c) ==
    /\ tpc[c] = "await"
    /\ tpc' = [tpc EXCEPT ![c] = "dead"]
    /\ terr' = [terr EXCEPT ![c] = "service"]
    /\ UNCHANGED << questions, chains, lock, threads, clock, files, log,
                    cblog, cvars, tmode, tcb, tnode, tt, stack, tstart,
                    treq, tcur >>

\* ------------------------------------------------------------ persistence
\* Question.save_node_content: the entry of a node in info.json
save_node_content(q, pname, chain, n) ==
    [model |-> to_json(chain, n).model,
     title |-> to_json(chain, n).title,
     question |-> to_json(chain, n).question,
     parentid |-> to_json(chain, n).parentid,
     is_instruction |-> to_json(chain, n).is_instruction,
     last_answered |-> to_json(chain, n).last_answered,
     time_taken |-> to_json(chain, n).time_taken,
     id |-> to_json(chain, n).id,
     contentfile |-> path_for_project_file(q, pname, chain[n].title, "md"),
     response |-> ""]

\* line 210 putting the section behind what was collected
IndexAdd_behind(section, out) == out \o section

\* line 210: the section of a node is put in front of what was collected
IndexAdd(section, out) == section \o out

RECURSIVE IndexSections(_, _, _)
\* lines 207-211 of save_answer_indexmd: the walk from the leaf upwards
IndexSections(chain, curr, out) ==
    IF curr = 0 THEN out
    ELSE IndexSections(chain, chain[curr].parent,
            IF chain[curr].title # ""
            THEN IndexAdd(<< "# ", chain[curr].title, "\n",
                             chain[curr].response_content, "\n\n" >>, out)
            ELSE out)

\* Question.save_answer_indexmd: the text written to index.md
save_answer_indexmd(q, chain) ==
    << "# ", q.content, "\n\n" >> \o IndexSections(chain, Len(chain), << >>)

\* line 234 inserting at the front
MetaAdd_front(nodes, nodeinfo) == << nodeinfo >> \o nodes

\* line 234: info["nodes"].append(nodeinfo)
MetaAdd(nodes, nodeinfo) == Append(nodes, nodeinfo)

RECURSIVE MetaNodes(_, _, _, _, _)
\* lines 231-235 of save_answer_meta: the walk from the leaf upwards
MetaNodes(q, pname, chain, curr, nodes) ==
    IF curr = 0 THEN nodes
    ELSE MetaNodes(q, pname, chain, chain[curr].parent,
                   MetaAdd(nodes, save_node_content(q, pname, chain, curr)))

\* Question.save_answer_meta: the document written to info.json
save_answer_meta(q, pname, chain) ==
    [qinfo |-> question_to_json(q).qinfo,
     project |-> pname,
     nodes |-> MetaNodes(q, pname, chain, Len(chain), << >>)]

\* ------------------------------------------- the callback (line 83)
\* oncomplete, lines 176-180: save_node_content(project, node, save=True)
\* and save_answer_indexmd(project), then callnode returns; a callnode
\* called directly is given a callback that does nothing else than being
\* called
Callback(c) ==
    /\ tpc[c] = "callback"
    /\ cblog' = Append(cblog, [task |-> c, tgt |-> ctgt[c],
                               node |-> Head(stack[c])])
    /\ IF tmode[c] = "bg"
       THEN files' =
              [p \in DOMAIN files \cup
                  { path_for_project_file(QuestionOf(c), ProjectNameOf(c),
                        ChainOf(c)[Head(stack[c])].title, "md"),
                    path_for_project_file(QuestionOf(c), ProjectNameOf(c),
                        "index", "md") } |->
                 IF p = path_for_project_file(QuestionOf(c), ProjectNameOf(c),
                            "index", "md")
                 THEN save_answer_indexmd(QuestionOf(c), ChainOf(c))
                 ELSE IF p = path_for_project_file(QuestionOf(c),
                                 ProjectNameOf(c),
                                 ChainOf(c)[Head(stack[c])].title, "md")
                 THEN ChainOf(c)[Head(stack[c])].response_content
                 ELSE files[p]]
       ELSE files' = files
    /\ tpc' = [tpc EXCEPT ![c] = ReturnTo(c)]
    /\ stack' = [stack EXCEPT ![c] = Tail(@)]
    /\ UNCHANGED << questions, chains, lock, threads, clock, log, cvars,
                    tmode, tcb, tnode, tt, tstart, treq, tcur, terr >>

\* oncomplete raises: open or write fails for the node file (lines
\* 221-222), or for index.md (lines 212-213) after the node file was
\* written; a file whose write failed keeps what it held
CallbackFails(c) ==
    /\ tpc[c] = "callback"
    /\ tmode[c] = "bg"
    /\ cblog' = Append(cblog, [task |-> c, tgt |-> ctgt[c],
                               node |-> Head(stack[c])])
    /\ \/ files' = files
       \/ files' = WriteFile(
              path_for_project_file(QuestionOf(c), ProjectNameOf(c),
                  ChainOf(c)[Head(stack[c])].title, "md"),
              ChainOf(c)[Head(stack[c])].response_content)
    /\ terr' = [terr EXCEPT ![c] = "callback"]
    /\ tpc' = [tpc EXCEPT ![c] = "dead"]
    /\ UNCHANGED << questions, chains, lock, threads, clock, log, cvars,
                    tmode, tcb, tnode, tt, stack, tstart, treq, tcur >>

\* ------------------------------------------------------- _answer_finished
\* line 189: with self.lock
FinAcquire(c) ==
    /\ tpc[c] = "fin_acquire"
    /\ lock[ctgt[c][1]] = 0
    /\ lock' = [lock EXCEPT ![ctgt[c][1]] = -c]
    /\ tpc' = [tpc EXCEPT ![c] = "fin_del"]
    /\ UNCHANGED << questions, chains, threads, clock, files, log, cblog,
                    cvars, tmode, tcb, tnode, tt, stack, tstart, treq, tcur,
                    terr >>

\* lines 190-191: if answerid in self.threads: del self.threads[answerid]
FinDelete(c) ==
    /\ tpc[c] = "fin_del"
    /\ threads' = IF InThreads(AnswerIdOf(c)) THEN DelThread(AnswerIdOf(c))
                  ELSE threads
    /\ tpc' = [tpc EXCEPT ![c] = "fin_release"]
    /\ UNCHANGED << questions, chains, lock, clock, files, log, cblog,
                    cvars, tmode, tcb, tnode, tt, stack, tstart, treq, tcur,
                    terr >>

\* the with block of line 189 reaching to the end of _answer_finished
FinRelease_after_writes(c) ==
    /\ tpc[c] = "fin_release"
    /\ lock' = lock
    /\ tcur' = [tcur EXCEPT ![c] = Len(ChainOf(c))]
    /\ tpc' = [tpc EXCEPT ![c] = "fin_write"]
    /\ UNCHANGED << questions, chains, threads, clock, files, log, cblog,
                    cvars, tmode, tcb, tnode, tt, stack, tstart, treq, terr >>

\* the end of the with block; line 194: curr = leaf
FinRelease(c) ==
    /\ tpc[c] = "fin_release"
    /\ lock' = [lock EXCEPT ![ctgt[c][1]] = 0]
    /\ tcur' = [tcur EXCEPT ![c] = Len(ChainOf(c))]
    /\ tpc' = [tpc EXCEPT ![c] = "fin_write"]
    /\ UNCHANGED << questions, chains, threads, clock, files, log, cblog,
                    cvars, tmode, tcb, tnode, tt, stack, tstart, treq, terr >>

\* lines 195-199: one turn of the loop that writes every node's file
FinWrite(c) ==
    /\ tpc[c] = "fin_write"
    /\ files' = WriteFile(
          path_for_project_file(QuestionOf(c), ProjectNameOf(c),
                                ChainOf(c)[tcur[c]].title, "md"),
          ChainOf(c)[tcur[c]].response_content)
    /\ tcur' = [tcur EXCEPT ![c] = ChainOf(c)[tcur[c]].parent]
    /\ tpc' = [tpc EXCEPT ![c] =
                 IF ChainOf(c)[tcur[c]].parent = 0 THEN "meta" ELSE "fin_write"]
    /\ UNCHANGED << questions, chains, lock, threads, clock, log, cblog,
                    cvars, tmode, tcb, tnode, tt, stack, tstart, treq, terr >>

\* line 200: save_answer_meta(project); the thread ends
WriteMeta(c) ==
    /\ tpc[c] = "meta"
    /\ files' = WriteFile(
          path_for_project_file(QuestionOf(c), ProjectNameOf(c), "info", "json"),
          save_answer_meta(QuestionOf(c), ProjectNameOf(c), ChainOf(c)))
    /\ tpc' = [tpc EXCEPT ![c] = "done"]
    /\ UNCHANGED << questions, chains, lock, threads, clock, log, cblog,
                    cvars, tmode, tcb, tnode, tt, stack, tstart, treq, tcur,
                    terr >>

\* open or write raises in _answer_finished (lines 197-198, 239-240): the
\* thread dies after the delete and before info.json is written, which is
\* modelled at line 200 for every place of the failure
FinishFails(c) ==
    /\ tpc[c] = "meta"
    /\ terr' = [terr EXCEPT ![c] = "finish"]
    /\ tpc' = [tpc EXCEPT ![c] = "dead"]
    /\ UNCHANGED << questions, chains, lock, threads, clock, files, log,
                    cblog, cvars, tmode, tcb, tnode, tt, stack, tstart,
                    treq, tcur >>

\* ------------------------------------------------- callnode called directly
Running(c) == tpc[c] \notin {"idle", "done", "dead"}

\* callnode(node, t, callback) called by the caller's own thread on any
\* node of a chain, one call after the other; the caller passes a callback
\* in all of its calls or in none
CallNode(c) ==
    /\ cpc[c] = "idle"
    /\ Begun(c - 1)
    /\ \A d \in Calls : ~ Running(d)
    /\ \E tg \in Targets : \E n \in 1..Len(chains[tg]) :
       \E t \in -1..MaxClock :
       \E cb \in (IF c = 1 THEN BOOLEAN ELSE {tcb[1]}) :
         /\ ctgt' = [ctgt EXCEPT ![c] = tg]
         /\ tnode' = [tnode EXCEPT ![c] = n]
         /\ tt' = [tt EXCEPT ![c] = t]
         /\ tcb' = [tcb EXCEPT ![c] = cb]
    /\ cpc' = [cpc EXCEPT ![c] = "callnode"]
    /\ tmode' = [tmode EXCEPT ![c] = "direct"]
    /\ tpc' = [tpc EXCEPT ![c] = "enter"]
    /\ UNCHANGED << questions, chains, lock, threads, clock, files, log,
                    cblog, cres, stack, tstart, treq, tcur, terr >>

\* callnode(node) and callnode(node, callback=cb): t is left at its default
CallNodeUnset(c) == CallNode(c) /\ tt'[c] < 0

\* callnode(node, t) and callnode(node, t, cb) with a timestamp
CallNodeAt(c) == CallNode(c) /\ tt'[c] >= 0

\* ---------------------------------------------------------- specification
CallerStep(c) ==
    \/ AnswerForProject(c)
    \/ AcquireLock(c)
    \/ CheckThreads(c)
    \/ StartThread(c)
    \/ ReleaseLock(c)

CallnodeStep(c) ==
    \/ Enter(c)
    \/ SendRequest(c)
    \/ GetResponse(c)
    \/ RequestFails(c)
    \/ Callback(c)

TaskStep(c) ==
    \/ CallnodeStep(c)
    \/ CallbackFails(c)
    \/ FinAcquire(c)
    \/ FinDelete(c)
    \/ FinRelease(c)
    \/ FinWrite(c)
    \/ WriteMeta(c)
    \/ FinishFails(c)

Next == \E c \in Calls : CallerStep(c) \/ TaskStep(c)

Spec == Init /\ [][Next]_vars

\* every thread that can take a step is scheduled: a caller inside
\* answer_for_project goes on, and so does a started thread; whether a
\* further call is made is up to the caller
FairSpec ==
    /\ Spec
    /\ \A c \in Calls :
          /\ WF_vars(AcquireLock(c) \/ CheckThreads(c) \/ StartThread(c)
                        \/ ReleaseLock(c))
          /\ WF_vars(TaskStep(c))

\* the dispatcher alone: callnode on any node with any t
NextNode == \E c \in Calls : CallNode(c) \/ CallnodeStep(c)

SpecNode == Init /\ [][NextNode]_vars

\* the dispatcher called without a timestamp only
NextUnset == \E c \in Calls : CallNodeUnset(c) \/ CallnodeStep(c)

SpecUnset == Init /\ [][NextUnset]_vars

\* the dispatcher called with a timestamp only
NextStamped == \E c \in Calls : CallNodeAt(c) \/ CallnodeStep(c)

SpecStamped == Init /\ [][NextStamped]_vars

\* a session of two questions loaded with projs = [MemoryAutoScaler]; the
\* callers may name any project of the catalog; the service answers every
\* request and every file is written
InitSession == InitWith(1 :> SessionQuestion @@ 2 :> SecondQuestion, "review")

\* the steps of a thread when neither the service nor the file system
\* fails
TaskStepOk(c) ==
    \/ Enter(c)
    \/ SendRequest(c)
    \/ GetResponse(c)
    \/ Callback(c)
    \/ FinAcquire(c)
    \/ FinDelete(c)
    \/ FinRelease(c)
    \/ FinWrite(c)
    \/ WriteMeta(c)

NextSession ==
    \E c \in Calls :
       CallerStep(c) \/ AnswerForUnknownProject(c) \/ TaskStepOk(c)

SpecSession == InitSession /\ [][NextSession]_vars

\* the same callers and threads on the session question alone
InitLookup == InitWith(1 :> SessionQuestion, "review")

SpecLookup == InitLookup /\ [][NextSession]_vars

\* the session question with the chain that load_questions builds, with
\* every failure of the service and of the file system
SpecReview == InitLookup /\ [][Next]_vars

\* the same with a scheduler that does not stop while a caller inside
\* answer_for_project or a started thread can take a step; whether a
\* further call is made is up to the caller
FairReview ==
    /\ SpecReview
    /\ WF_vars(\E c \in Calls :
                  \/ AcquireLock(c) \/ CheckThreads(c) \/ StartThread(c)
                  \/ ReleaseLock(c) \/ TaskStep(c))

\* the session question with the chain instruction -> oneminute -> twominute
InitExample == InitWith(1 :> SessionQuestion, "twominute")

SpecExample == InitExample /\ [][Next]_vars

\* two Question objects with the same rootfolder, area, subtopic and id,
\* as load_questions builds them when it is called twice with the same
\* questions: each has its own lock and its own leaf nodes
InitTwin == InitWith(1 :> SessionQuestion @@ 2 :> SessionQuestion, "review")

NextTwin == \E c \in Calls : CallerStep(c) \/ TaskStepOk(c)

SpecTwin == InitTwin /\ [][NextTwin]_vars

\* the names a second project can have next to the project "A B"
ProjectNames == { <<"A", "B">>, <<"B">> }

\* one Question with two projects of different names
InitFolders ==
    \E pname \in ProjectNames :
       InitWith(1 :> Question("./responses", <<"a", " ", "b">>, <<"s">>,
                              "What?", "0",
                              << Project("Google", <<"A", " ", "B">>,
                                         "timeline"),
                                 Project("Google", pname, "timeline") >>),
                "review")

SpecFolders == InitFolders /\ [][NextTwin]_vars

\* ================================================================ claims
\* a background thread that is registered: started and not yet past the
\* delete of _answer_finished
Registered(c) ==
    /\ tmode[c] = "bg"
    /\ \/ tpc[c] \in {"enter", "request", "await", "callback",
                      "fin_acquire", "fin_del"}
       \/ tpc[c] = "dead" /\ terr[c] # "finish"

SameId(c, d) ==
    /\ ctgt[c] # << >>
    /\ ctgt[d] # << >>
    /\ AnswerIdOf(c) = AnswerIdOf(d)

\* C1: on one Question, a call of answer_for_project that finds the answer
\* id registered returns without starting a thread: a caller is about to
\* start a thread only while the id is not registered, a call that
\* returned "already answering" started none, and at no time are two
\* threads registered for one answer id.
C1_OneRegisteredPerId ==
    /\ \A c \in Calls : cpc[c] = "register" => ~ InThreads(AnswerIdOf(c))
    /\ \A c \in Calls : cres[c] = "already" => tpc[c] = "idle"
    /\ \A c, d \in Calls :
          Registered(c) /\ Registered(d) /\ SameId(c, d) => c = d
    /\ \A c \in Calls : Registered(c) => << AnswerIdOf(c), c >> \in threads

C1_Witness ==
    \E c, d \in Calls :
       /\ Registered(c)
       /\ Running(c)
       /\ cres[d] = "already"
       /\ cpc[d] = "returned"
       /\ SameId(c, d)

\* a background thread that is executing the chain or writing files
Working(c) ==
    /\ tmode[c] = "bg"
    /\ tpc[c] \in {"enter", "request", "await", "callback",
                   "fin_write", "meta"}

\* C2: no two background threads for the same answer id are at the same
\* time issuing requests or writing files of the project folder.
C2_OneWorkingPerId ==
    \A c, d \in Calls : Working(c) /\ Working(d) /\ SameId(c, d) => c = d

\* the requests that call c issued
RequestsOf(c) == {i \in 1..Len(log) : log[i].task = c}

\* call c dispatched a chain that no request had touched before
FreshChain(c) ==
    \A i \in 1..Len(log) :
       log[i].tgt = ctgt[c] /\ log[i].task # c
          => \A j \in RequestsOf(c) : j < i

\* the callnode of background thread c has returned
CallnodeReturned(c) ==
    /\ tmode[c] = "bg"
    /\ \/ tpc[c] \in {"fin_acquire", "fin_del", "fin_release", "fin_write",
                      "meta", "done"}
       \/ tpc[c] = "dead" /\ terr[c] = "finish"

\* C3 as stated: one dispatch of the leaf of a fresh chain of N nodes
\* issues exactly N requests.
C3_RequestPerNode ==
    \A c \in Calls :
       CallnodeReturned(c) /\ FreshChain(c)
          => Cardinality(RequestsOf(c)) = Len(ChainOf(c))

\* C3 amended: one dispatch of the leaf of a fresh chain issues exactly one
\* request for every node that is not an instruction carrier, and none for
\* the instruction carrier.
C3_RequestPerNonInstructionNode ==
    \A c \in Calls :
       CallnodeReturned(c) /\ FreshChain(c)
          => /\ Cardinality(RequestsOf(c)) =
                  Cardinality({n \in 1..Len(ChainOf(c)) :
                                  ~ ChainOf(c)[n].is_instruction})
             /\ \A n \in 1..Len(ChainOf(c)) :
                   Cardinality({i \in RequestsOf(c) : log[i].node = n}) =
                      IF ChainOf(c)[n].is_instruction THEN 0 ELSE 1

C3_Witness ==
    \E c \in Calls :
       /\ CallnodeReturned(c)
       /\ FreshChain(c)
       /\ Len(ChainOf(c)) = 5
       /\ Cardinality(RequestsOf(c)) = 4

\* C4: a request for a node whose parent is not an instruction carrier
\* refers to the response of an earlier, answered request for that parent;
\* callnode never reaches line 75 with a parent that has no response.
C4_ParentAnsweredFirst ==
    /\ \A c \in Calls : terr[c] # "attribute"
    /\ \A i \in 1..Len(log) :
          LET p == chains[log[i].tgt][log[i].node].parent IN
          (p # 0 /\ ~ chains[log[i].tgt][p].is_instruction)
             => /\ log[i].params.previous_response_id \in 1..(i - 1)
                /\ log[log[i].params.previous_response_id].node = p
                /\ log[log[i].params.previous_response_id].tgt = log[i].tgt
                /\ chains[log[i].tgt][p].response >=
                      log[i].params.previous_response_id

C4_Witness ==
    \E i \in 1..Len(log) :
       /\ log[i].params.previous_response_id # 0
       /\ tt[log[i].task] > 0
       /\ tnode[log[i].task] = log[i].node

\* C5: in a dispatch of a descendant of an instruction carrier, the text
\* of the instruction carrier is never the input of a request; it is the
\* instructions parameter of the requests of its immediate child and of no
\* other request.
C5_InstructionNeverInput ==
    \A i \in 1..Len(log) :
       \A a \in 1..(tnode[log[i].task] - 1) :
          chains[log[i].tgt][a].is_instruction
             => /\ log[i].node # a
                /\ log[i].params.input # chains[log[i].tgt][a].question
                /\ (log[i].params.instructions = chains[log[i].tgt][a].question)
                      <=> (chains[log[i].tgt][log[i].node].parent = a)

C5_Witness ==
    \E i, j \in 1..Len(log) :
       /\ log[i].task = log[j].task
       /\ log[i].params.instructions # << >>
       /\ log[j].params.instructions = << >>
       /\ chains[log[i].tgt][1].is_instruction
       /\ tnode[log[i].task] > 2

\* a background thread that died of an exception raised inside callnode
\* (the completion call or the callback)
DiedInChain(c) ==
    /\ tmode[c] = "bg"
    /\ tpc[c] = "dead"
    /\ terr[c] \in {"service", "callback", "attribute"}

\* C6: once the completion call or a callback file write raised inside
\* the background thread, its answer id stays in the in-flight map for
\* ever, and every call of answer_for_project for the same question and
\* project that checks the map afterwards returns "already answering"
\* without starting a thread.
C6_StuckAfterException ==
    /\ [](\A c \in Calls : DiedInChain(c) => InThreads(AnswerIdOf(c)))
    /\ [][\A c, d \in Calls :
            (DiedInChain(c) /\ SameId(c, d))
               => /\ tpc[d] = "idle" => tpc'[d] = "idle"
                  /\ (cpc[d] = "check" /\ cpc'[d] # "check")
                        => (cpc'[d] = "release" /\ cres'[d] = "already")]_vars

C6_Witness ==
    \E c, d \in Calls :
       /\ DiedInChain(c)
       /\ terr[c] \in {"service", "callback"}
       /\ SameId(c, d)
       /\ cpc[d] = "returned"
       /\ cres[d] = "already"
       /\ \E e \in Calls : DiedInChain(e) /\ terr[e] = "callback"

InfoPath(tg) == path_for_project_file(questions[tg[1]], tg[2], "info", "json")
IndexPath(tg) == path_for_project_file(questions[tg[1]], tg[2], "index", "md")

\* C7: under fair scheduling every started background thread ends: it
\* either dies of an exception or is done, and when it is done its own
\* registration is gone from the in-flight map and info.json is written;
\* a started thread stops for no other reason than an exception.
C7_StartedTaskEnds ==
    \A c \in Calls :
       (tpc[c] = "enter" /\ tmode[c] = "bg")
          ~> \/ /\ tpc[c] = "done"
                /\ << AnswerIdOf(c), c >> \notin threads
                /\ InfoPath(ctgt[c]) \in DOMAIN files
             \/ /\ tpc[c] = "dead"
                /\ terr[c] # "none"

C7_Witness ==
    \E c \in Calls :
       /\ tmode[c] = "bg"
       /\ tpc[c] = "done"
       /\ InfoPath(ctgt[c]) \in DOMAIN files
       /\ ~ InThreads(AnswerIdOf(c))

\* C8 as stated: the node list of info.json has one entry per node of the
\* chain, the root first and the leaf last.
C8_InfoOldestFirst ==
    \A tg \in Targets :
       InfoPath(tg) \in DOMAIN files
          => /\ Len(files[InfoPath(tg)].nodes) = Len(chains[tg])
             /\ \A i \in 1..Len(chains[tg]) :
                   files[InfoPath(tg)].nodes[i].id = chains[tg][i].id

\* C8 amended: the node list of info.json has one entry per node of the
\* chain, the leaf first and the root last: every entry is followed by the
\* entry of its parent.
C8_InfoNewestFirst ==
    \A tg \in Targets :
       InfoPath(tg) \in DOMAIN files
          => LET nodes == files[InfoPath(tg)].nodes IN
             /\ Len(nodes) = Len(chains[tg])
             /\ \A i \in 1..Len(nodes) :
                   /\ nodes[i].id = chains[tg][Len(nodes) + 1 - i].id
                   /\ nodes[i].parentid =
                         IF i < Len(nodes) THEN nodes[i + 1].id ELSE "None"

C8_Witness ==
    \E tg \in Targets :
       /\ InfoPath(tg) \in DOMAIN files
       /\ Len(files[InfoPath(tg)].nodes) = 5
       /\ files[InfoPath(tg)].nodes[1].id = "flowchart"

\* the entries of info.json point to files that hold the responses of the
\* nodes
ContentFilesMatch(fs, tg, chain) ==
    /\ InfoPath(tg) \in DOMAIN fs
    /\ \A n \in 1..Len(chain) :
          \E i \in 1..Len(fs[InfoPath(tg)].nodes) :
             LET e == fs[InfoPath(tg)].nodes[i] IN
             /\ e.id = chain[n].id
             /\ e.response = ""
             /\ e.contentfile \in DOMAIN fs
             /\ fs[e.contentfile] = chain[n].response_content

\* C9: when a chain run has ended with the writing of info.json, every
\* node's entry names an existing file that holds the node's response
\* text, and carries no response text itself.
C9_ContentFilesHoldResponses ==
    [][\A c \in Calls :
          (tpc[c] = "meta" /\ tpc'[c] = "done")
             => ContentFilesMatch(files', ctgt[c], chains'[ctgt[c]])]_vars

\* positions, root first, of the nodes of a chain from position n on that
\* have a title and, when answeredOnly, have been answered
RECURSIVE TitledFrom(_, _, _)
TitledFrom(chain, n, answeredOnly) ==
    IF n > Len(chain) THEN << >>
    ELSE (IF chain[n].title # "" /\ (answeredOnly => IsAnswered(chain[n]))
          THEN << n >> ELSE << >>)
         \o TitledFrom(chain, n + 1, answeredOnly)

\* the text of index.md is the heading of the question followed by the
\* sections of the nodes at the positions T, in this order, each with the
\* node's title and response text
IndexShows(fs, tg, chain, T) ==
    /\ IndexPath(tg) \in DOMAIN fs
    /\ LET f == fs[IndexPath(tg)] IN
       /\ Len(f) = 3 + 5 * Len(T)
       /\ f[1] = "# "
       /\ f[2] = questions[tg[1]].content
       /\ f[3] = "\n\n"
       /\ \A k \in 1..Len(T) :
             /\ f[5 * k - 1] = "# "
             /\ f[5 * k] = chain[T[k]].title
             /\ f[5 * k + 1] = "\n"
             /\ f[5 * k + 2] = chain[T[k]].response_content
             /\ f[5 * k + 3] = "\n\n"

\* C10 as stated: after each node completion index.md holds the sections
\* of exactly the nodes completed so far, oldest first.
C10_IndexOnlyCompleted ==
    [][\A c \in Calls :
          (tmode[c] = "bg" /\ tpc[c] = "callback"
              /\ tpc'[c] \notin {"callback", "dead"})
             => IndexShows(files', ctgt[c], chains'[ctgt[c]],
                           TitledFrom(chains'[ctgt[c]], 1, TRUE))]_vars

\* C10 amended: after each node completion index.md is rewritten and
\* holds, after the heading of the question, one section for every titled
\* node of the chain, oldest first, answered or not: the section of a node
\* not yet answered has an empty body, an untitled node has no section.
C10_IndexEveryTitledNode ==
    [][\A c \in Calls :
          (tmode[c] = "bg" /\ tpc[c] = "callback"
              /\ tpc'[c] \notin {"callback", "dead"})
             => /\ IndexShows(files', ctgt[c], chains'[ctgt[c]],
                              TitledFrom(chains'[ctgt[c]], 1, FALSE))
                /\ \A n \in 1..Len(chains'[ctgt[c]]) :
                      ~ IsAnswered(chains'[ctgt[c]][n])
                         => chains'[ctgt[c]][n].response_content = ""]_vars

C10_Witness ==
    \E tg \in Targets :
       /\ IndexShows(files, tg, chains[tg], TitledFrom(chains[tg], 1, FALSE))
       /\ \E n \in 1..Len(chains[tg]) :
             /\ chains[tg][n].title # ""
             /\ ~ IsAnswered(chains[tg][n])
       /\ \E n \in 1..Len(chains[tg]) :
             /\ chains[tg][n].title # ""
             /\ IsAnswered(chains[tg][n])

\* the file of the node with the given title in the folder of a target
NodePath(tg, title) == path_for_project_file(questions[tg[1]], tg[2], title, "md")

\* background thread c ran its chain to the end and the completion service
\* has served no other run: its k-th call is the k-th request of c
RanAlone(c) ==
    /\ tmode[c] = "bg"
    /\ tpc[c] = "done"
    /\ \A i \in 1..Len(log) : log[i].task = c

\* the folder of thread c holds the oneminute file with text x, the
\* twominute file with text y, and an index.md made of the heading of the
\* question, the section of "One minute answer" with x and the section of
\* "Two Minute Answer" with y
ExampleOutput(c, x, y) ==
    /\ NodePath(ctgt[c], "One minute answer") \in DOMAIN files
    /\ files[NodePath(ctgt[c], "One minute answer")] = x
    /\ NodePath(ctgt[c], "Two Minute Answer") \in DOMAIN files
    /\ files[NodePath(ctgt[c], "Two Minute Answer")] = y
    /\ IndexPath(ctgt[c]) \in DOMAIN files
    /\ files[IndexPath(ctgt[c])] =
          << "# ", QuestionOf(c).content, "\n\n",
             "# ", "One minute answer", "\n", x, "\n\n",
             "# ", "Two Minute Answer", "\n", y, "\n\n" >>

\* C11 as stated: a run of the chain instruction -> oneminute -> twominute
\* against a service that returns "A", "B", "C" for its first, second and
\* third call leaves "B" in the oneminute file, "C" in the twominute file,
\* and an index.md with the sections of the two titled nodes with "B" and
\* "C" and no section for the instruction node.
C11_ExampleSecondAndThird ==
    \A c \in Calls : RanAlone(c) => ExampleOutput(c, "B", "C")

\* C11 amended: the run issues two requests, none for the instruction
\* node, and leaves the first text "A" in the oneminute file, the second
\* text "B" in the twominute file, and an index.md with the sections of
\* the two titled nodes with "A" and "B" and no section for the
\* instruction node.
C11_ExampleFirstAndSecond ==
    \A c \in Calls :
       RanAlone(c) => /\ Len(log) = 2
                      /\ ExampleOutput(c, "A", "B")

C11_Witness ==
    \E c \in Calls :
       /\ RanAlone(c)
       /\ Len(ChainOf(c)) = 3
       /\ ChainOf(c)[1].is_instruction
       /\ ExampleOutput(c, OutputText(1), OutputText(2))

\* request i has been answered: it is neither in flight nor did it fail
AnsweredRequest(i) ==
    ~ /\ treq[log[i].task] = i
      /\ \/ tpc[log[i].task] = "await"
         \/ tpc[log[i].task] = "dead" /\ terr[log[i].task] = "service"

\* the answered requests for the node of call c that calls before c issued
AnsweredBefore(c) ==
    {i \in 1..Len(log) : /\ log[i].task < c
                          /\ log[i].tgt = ctgt[c]
                          /\ log[i].node = tnode[c]
                          /\ AnsweredRequest(i)}

\* the requests that call c issued for the node it was called on
OwnRequests(c) == {i \in RequestsOf(c) : log[i].node = tnode[c]}

\* call c is at lines 60-76 for the node it was called on, which an
\* earlier dispatch answered at a time before the t of call c
RecalledLater(c) ==
    /\ tmode[c] = "direct"
    /\ tpc[c] \in {"request", "await"}
    /\ Head(stack[c]) = tnode[c]
    /\ IsAnswered(ChainOf(c)[tnode[c]])
    /\ ChainOf(c)[tnode[c]].last_answered < tt[c]

\* C12 as stated: callnode called with a later timestamp on a node that
\* has been answered is a no-op: no request for the node is issued.
C12_RecallIsNoOp ==
    \A c \in Calls : RecalledLater(c) => tpc[c] # "await"

\* C12 amended: callnode called with a timestamp on a node that has been
\* answered issues exactly one new request for the node, and when it
\* returns the node holds the handle and the text of a response that is
\* newer than every response the node had before the call.
C12_RecallReissues ==
    \A c \in Calls :
       (tmode[c] = "direct" /\ tpc[c] = "done" /\ AnsweredBefore(c) # {})
          => /\ Cardinality(OwnRequests(c)) = 1
             /\ \A j \in OwnRequests(c) :
                   /\ \A i \in AnsweredBefore(c) : i < j
                   /\ ChainOf(c)[tnode[c]].response >= j
             /\ ChainOf(c)[tnode[c]].response_content =
                   OutputText(ChainOf(c)[tnode[c]].response)
             /\ ChainOf(c)[tnode[c]].last_answered >= 0

C12_Witness ==
    \E c \in Calls :
       /\ RecalledLater(c)
       /\ tpc[c] = "await"
       /\ log[treq[c]].node = tnode[c]
       /\ AnsweredBefore(c) # {}
       /\ ChainOf(c)[tnode[c]].response \in AnsweredBefore(c)

\* C13: callnode called without a timestamp issues the request of the node
\* it was called on whether or not the node has been answered: a call that
\* returned has issued exactly one request for its node; its other
\* requests are for proper ancestors, at most one each.
C13_UnsetTimestampReissues ==
    \A c \in Calls :
       (tmode[c] = "direct" /\ tpc[c] = "done")
          => /\ Cardinality(OwnRequests(c)) = 1
             /\ \A i \in RequestsOf(c) : log[i].node <= tnode[c]
             /\ \A i, j \in RequestsOf(c) :
                   log[i].node = log[j].node => i = j

\* two calls without a timestamp on the same node: the second found the
\* node and its parent answered, skipped the parent and sent the node again
C13_Witness ==
    \E c, d \in Calls :
       /\ c < d
       /\ tmode[c] = "direct" /\ tpc[c] = "done"
       /\ tmode[d] = "direct" /\ tpc[d] = "done"
       /\ ctgt[c] = ctgt[d]
       /\ tnode[c] = tnode[d]
       /\ Cardinality(RequestsOf(c)) = 2
       /\ Cardinality(RequestsOf(d)) = 1
       /\ Cardinality(OwnRequests(d)) = 1
       /\ AnsweredBefore(d) # {}

\* the callbacks that call c made
CallbacksOf(c) == {j \in 1..Len(cblog) : cblog[j].task = c}

\* the request of call c failed
RequestFailed(c) == terr[c] = "service"

\* C14: when the request for a node fails during callnode, the call ends
\* with the failure; the failed request is the last one of the call and no
\* node is requested twice; no request was issued and no callback made for
\* the failing node's descendants, no callback for the failing node; the
\* failure leaves the fields of every node as they were, so that the
\* failing node and its descendants hold no response of this call, while
\* the ancestors answered earlier in the call hold theirs.
C14_FailureEndsCall ==
    /\ [](\A c \in Calls :
            /\ \A i, j \in RequestsOf(c) : log[i].node = log[j].node => i = j
            /\ RequestFailed(c)
                  => /\ tpc[c] = "dead"
                     /\ \A i \in RequestsOf(c) :
                           /\ i <= treq[c]
                           /\ log[i].node <= log[treq[c]].node
                           /\ i < treq[c]
                                 => /\ IsAnswered(ChainOf(c)[log[i].node])
                                    /\ ChainOf(c)[log[i].node].response >= i
                     /\ \A j \in CallbacksOf(c) :
                           cblog[j].node < log[treq[c]].node
                     /\ \A n \in log[treq[c]].node..Len(ChainOf(c)) :
                           ChainOf(c)[n].response \notin RequestsOf(c))
    /\ [][\A c \in Calls :
            (~ RequestFailed(c) /\ RequestFailed(c)')
               => /\ chains' = chains
                  /\ log' = log
                  /\ cblog' = cblog]_vars

C14_Witness ==
    \E c \in Calls :
       /\ RequestFailed(c)
       /\ tpc[c] = "dead"
       /\ tcb[c]
       /\ log[treq[c]].node < tnode[c]
       /\ \E i \in RequestsOf(c) :
             /\ i < treq[c]
             /\ ChainOf(c)[log[i].node].response = i
             /\ \E j \in CallbacksOf(c) : cblog[j].node = log[i].node
       /\ ~ IsAnswered(ChainOf(c)[tnode[c]])

\* the background threads other than c that ran for the answer id of c
OtherRuns(c) == {d \in Calls \ {c} : tmode[d] = "bg" /\ SameId(c, d)}

\* C15: when the chain run of a background thread fails at the request
\* for node k, the thread is dead without having entered the loop of
\* _answer_finished that writes the node files again, and so without
\* having written info.json; the folder holds, for every node the run
\* answered before k, the file its callback wrote, with the node's
\* response; and when no other run was made for the answer id, there is
\* no info.json in the folder.
C15_PartialFolder ==
    \A c \in Calls :
       (tmode[c] = "bg" /\ RequestFailed(c))
          => /\ tpc[c] = "dead"
             /\ tcur[c] = 0
             /\ \A i \in RequestsOf(c) :
                   i < treq[c]
                      => LET f == NodePath(ctgt[c],
                                           ChainOf(c)[log[i].node].title) IN
                         /\ f \in DOMAIN files
                         /\ files[f] = OutputText(i)
                         /\ files[f] = ChainOf(c)[log[i].node].response_content
             /\ OtherRuns(c) = {} => InfoPath(ctgt[c]) \notin DOMAIN files

C15_Witness ==
    \E c \in Calls :
       /\ tmode[c] = "bg"
       /\ RequestFailed(c)
       /\ OtherRuns(c) = {}
       /\ \E i \in RequestsOf(c) :
             /\ i < treq[c]
             /\ files[NodePath(ctgt[c], ChainOf(c)[log[i].node].title)] =
                   OutputText(i)
       /\ IndexPath(ctgt[c]) \in DOMAIN files
       /\ InfoPath(ctgt[c]) \notin DOMAIN files

\* call c named a project that was not added to its question
UnknownProject(c) == ctgt[c] # << >> /\ ~ HasLeaf(ctgt[c][1], ctgt[c][2])

\* C16: a call of answer_for_project that names a project not added to
\* the question ends with the lookup error of line 160: it never holds the
\* lock, starts no thread, and the in-flight map never has an entry for
\* its answer id or its thread.
C16_UnknownProjectFails ==
    \A c \in Calls :
       UnknownProject(c)
          => /\ cpc[c] = "raised"
             /\ cres[c] = "KeyError"
             /\ tpc[c] = "idle"
             /\ lock[ctgt[c][1]] # c
             /\ \A e \in threads : e[1] # AnswerIdOf(c) /\ e[2] # c

C16_Witness ==
    \E c, d \in Calls :
       /\ UnknownProject(c)
       /\ cres[c] = "KeyError"
       /\ ctgt[d] # << >>
       /\ ctgt[d][1] = ctgt[c][1]
       /\ << AnswerIdOf(d), d >> \in threads

\* thread of control inside a step that reads, inserts into or deletes
\* from the in-flight map: the caller c at lines 163-168, the thread c at
\* lines 190-191
CallerInMapStep(c) == cpc[c] \in {"check", "register"}
TaskInMapStep(c) == tpc[c] = "fin_del"

\* C17: no two callers or threads, of the same or of different Question
\* objects, are at the same time inside a check, register or delete step
\* on the in-flight map.
C17_MapStepsExclusive ==
    \A c, d \in Calls :
       /\ (CallerInMapStep(c) /\ CallerInMapStep(d)) => c = d
       /\ (TaskInMapStep(c) /\ TaskInMapStep(d)) => c = d
       /\ ~ (CallerInMapStep(c) /\ TaskInMapStep(d))

ParentResponses(i) ==
    {j \in 1..(i - 1) :
        /\ log[j].tgt = log[i].tgt
        /\ log[j].node = chains[log[i].tgt][log[i].node].parent
        /\ AnsweredRequest(j)}

\* C19: every request carries the text of its node as input; when the
\* parent of the node is an instruction carrier, the parent's text as
\* instructions and no previous response; when the parent is not an
\* instruction carrier, the handle of the latest response of the parent as
\* previous response and no instructions; when the node has no parent,
\* neither.
C19_RequestComposition ==
    \A i \in 1..Len(log) :
       LET chain == chains[log[i].tgt]
           n == log[i].node
           params == log[i].params
       IN /\ params.input = chain[n].question
          /\ params.model = chain[n].model
          /\ (chain[n].parent # 0 /\ chain[chain[n].parent].is_instruction)
                => /\ params.instructions = chain[chain[n].parent].question
                   /\ params.previous_response_id = 0
          /\ (chain[n].parent # 0 /\ ~ chain[chain[n].parent].is_instruction)
                => /\ params.instructions = << >>
                   /\ params.previous_response_id \in ParentResponses(i)
                   /\ \A j \in ParentResponses(i) :
                         j <= params.previous_response_id
          /\ chain[n].parent = 0
                => /\ params.instructions = << >>
                   /\ params.previous_response_id = 0

\* a request that names the later of two responses of its parent, and a
\* request with instructions
C19_Witness ==
    /\ \E i \in 1..Len(log) :
          /\ Cardinality(ParentResponses(i)) >= 2
          /\ log[i].params.previous_response_id \in ParentResponses(i)
    /\ \E i \in 1..Len(log) : log[i].params.instructions # << >>

\* the nodes for which call c got a response
AnsweredNodes(c) ==
    {log[i].node : i \in {k \in RequestsOf(c) : AnsweredRequest(k)}}

\* the nodes that call c handed to its callback
CalledBackNodes(c) == {cblog[j].node : j \in CallbacksOf(c)}

\* C20: in a callnode dispatch with a callback, the callback is made once
\* for each node whose request succeeded, ancestors first and the
\* dispatched node last; it is made when the node's response handle, text,
\* last-answered time and elapsed time are set, and it has been made for
\* every answered node by the time the request of the next node is put
\* together or in flight; a dispatch without a callback makes none.
C20_CallbackPerAnsweredNode ==
    \A c \in Calls :
       tmode[c] = "direct"
          => /\ ~ tcb[c] => CallbacksOf(c) = {}
             /\ tcb[c]
                   => /\ \A j, k \in CallbacksOf(c) :
                            j < k => cblog[j].node < cblog[k].node
                      /\ CalledBackNodes(c) =
                            IF tpc[c] = "callback"
                            THEN AnsweredNodes(c) \ {Head(stack[c])}
                            ELSE AnsweredNodes(c)
                      /\ tpc[c] = "callback"
                            => LET node == ChainOf(c)[Head(stack[c])] IN
                               /\ log[treq[c]].node = Head(stack[c])
                               /\ node.response = treq[c]
                               /\ node.response_content = OutputText(treq[c])
                               /\ node.last_answered >= tstart[c]
                               /\ node.time_taken =
                                     node.last_answered - tstart[c]
                      /\ tpc[c] = "done" => tnode[c] \in CalledBackNodes(c)

C20_Witness ==
    \E c \in Calls :
       /\ tmode[c] = "direct"
       /\ tcb[c]
       /\ tpc[c] = "done"
       /\ Cardinality(CallbacksOf(c)) >= 3
       /\ \E j \in CallbacksOf(c) :
             /\ cblog[j].node = tnode[c]
             /\ \A k \in CallbacksOf(c) : k <= j

\* node n has a parent that is not an instruction carrier and was last
\* answered before t
ParentIsStale(chain, n, t) ==
    /\ chain[n].parent # 0
    /\ ~ chain[chain[n].parent].is_instruction
    /\ chain[chain[n].parent].last_answered < t

\* call c got a response for node n
AnsweredBy(c, n) ==
    \E i \in RequestsOf(c) : log[i].node = n /\ AnsweredRequest(i)

\* C21: while callnode, called with the timestamp t, is about to send or
\* has in flight the request of a node, the calls waiting below it are
\* those of its descendants down to the node callnode was called on, each
\* waiting because its parent exists, is no instruction carrier and was
\* last answered before t; and the parent of the node being sent either
\* got its response in this call or is no such parent. So a call whose t
\* is not later than the parent's last-answered time sends the request of
\* its own node only.
C21_ParentFirstWhenStale ==
    \A c \in Calls :
       (tmode[c] = "direct" /\ tpc[c] \in {"request", "await"})
          => /\ stack[c][Len(stack[c])] = tnode[c]
             /\ \A k \in 1..(Len(stack[c]) - 1) :
                   /\ stack[c][k] = ChainOf(c)[stack[c][k + 1]].parent
                   /\ ParentIsStale(ChainOf(c), stack[c][k + 1], tt[c])
             /\ \/ AnsweredBy(c, ChainOf(c)[Head(stack[c])].parent)
                \/ ~ ParentIsStale(ChainOf(c), Head(stack[c]), tt[c])
             /\ (/\ ~ ParentIsStale(ChainOf(c), tnode[c], tt[c])
                 /\ ~ AnsweredBy(c, ChainOf(c)[tnode[c]].parent))
                   => /\ stack[c] = << tnode[c] >>
                      /\ RequestsOf(c) \subseteq OwnRequests(c)

\* a call with a timestamp has only the request of its own node in
\* flight, its parent being answered not before that timestamp, after
\* another call had sent the parent first
C21_Witness ==
    \E c, d \in Calls :
       /\ tmode[c] = "direct"
       /\ tpc[c] = "await"
       /\ RequestsOf(c) = OwnRequests(c)
       /\ ChainOf(c)[tnode[c]].parent # 0
       /\ ~ ChainOf(c)[ChainOf(c)[tnode[c]].parent].is_instruction
       /\ IsAnswered(ChainOf(c)[ChainOf(c)[tnode[c]].parent])
       /\ ChainOf(c)[ChainOf(c)[tnode[c]].parent].last_answered >= tt[c]
       /\ tmode[d] = "direct"
       /\ tpc[d] = "done"
       /\ ctgt[d] = ctgt[c]
       /\ Cardinality(RequestsOf(d)) >= 2

\* the requests for node n of chain tg that got a response
SucceededFor(tg, n) ==
    {i \in 1..Len(log) :
        log[i].tgt = tg /\ log[i].node = n /\ AnsweredRequest(i)}

\* C22: as long as no request for a node has got its response, the node
\* has no response handle, the empty response text, last-answered -1 and
\* elapsed time 0, whatever else was sent, failed, called back or written;
\* once one has, the node's handle and text are those of a response to a
\* request for that node and its last-answered time is a clock reading.
C22_FieldsSetBySuccessOnly ==
    \A tg \in DOMAIN chains :
       \A n \in 1..Len(chains[tg]) :
          IF SucceededFor(tg, n) = {}
          THEN /\ chains[tg][n].response = 0
               /\ chains[tg][n].response_content = ""
               /\ chains[tg][n].last_answered = -1
               /\ chains[tg][n].time_taken = 0
          ELSE /\ chains[tg][n].response \in SucceededFor(tg, n)
               /\ chains[tg][n].response_content =
                                         OutputText(chains[tg][n].response)
               /\ chains[tg][n].last_answered \in 0..clock
               /\ chains[tg][n].time_taken \in 0..clock

\* a thread died of the failed request of a node that still has its
\* initial fields, after the parent was answered, called back and saved
C22_Witness ==
    \E c \in Calls :
       /\ tpc[c] = "dead"
       /\ terr[c] = "service"
       /\ SucceededFor(ctgt[c], log[treq[c]].node) = {}
       /\ ChainOf(c)[log[treq[c]].node].last_answered = -1
       /\ ChainOf(c)[log[treq[c]].node].response_content = ""
       /\ ChainOf(c)[log[treq[c]].node].time_taken = 0
       /\ log[treq[c]].node > 1
       /\ SucceededFor(ctgt[c], log[treq[c]].node - 1) # {}
       /\ IsAnswered(ChainOf(c)[log[treq[c]].node - 1])
       /\ \E j \in CallbacksOf(c) : cblog[j].node = log[treq[c]].node - 1

RECURSIVE Ancestry(_, _, _)
\* the nodes met by following the parent links from node n, for at most
\* fuel links
Ancestry(chain, n, fuel) ==
    IF n = 0 \/ fuel = 0 THEN << >>
    ELSE << n >> \o Ancestry(chain, chain[n].parent, fuel - 1)

\* following the parent links from the leaf visits every node once, the
\* node built last first, and ends at the root, which has no parent
StraightLine(chain) ==
    /\ Ancestry(chain, Len(chain), Len(chain) + 1) =
                      [k \in 1..Len(chain) |-> Len(chain) + 1 - k]
    /\ chain[1].parent = 0
    /\ \A n \in 2..Len(chain) :
          chain[n].parent = n - 1 /\ ~ chain[n].is_instruction

\* C23 as stated: every chain of the chain builders is a straight line
\* from the leaf to a root without a parent, the root is an instruction
\* carrier and every other node is not and has the node built just before
\* it as its parent.
C23_RootIsInstruction ==
    \A tg \in DOMAIN chains :
       /\ StraightLine(chains[tg])
       /\ chains[tg][1].is_instruction

\* C23 amended: every chain of the chain builders is a straight line from
\* the leaf to a root without a parent and every node but the root is no
\* instruction carrier and has the node built just before it as its
\* parent; the root of nodes_for_chained_answer is an untitled instruction
\* carrier holding the instruction text with the project's name and the
\* unformatted placeholder of the question, the root of
\* nodes_for_answer_with_review is the node titled OneShotAnswer, which is
\* no instruction carrier and holds the text of the question and the
\* project's name.
C23_RootOfChainedIsInstruction ==
    \A tg \in DOMAIN chains :
       /\ StraightLine(chains[tg])
       /\ chains[tg][Len(chains[tg])].id \in {"flowchart", "reviewed"}
       /\ chains[tg][Len(chains[tg])].id = "flowchart"
             => /\ Len(chains[tg]) = 5
                /\ chains[tg][1].is_instruction
                /\ chains[tg][1].title = ""
                /\ chains[tg][1].question[3] = tg[2]
                /\ chains[tg][1].question[6] =
                                 "Answer this question: {question.content}"
       /\ chains[tg][Len(chains[tg])].id = "reviewed"
             => /\ Len(chains[tg]) = 2
                /\ ~ chains[tg][1].is_instruction
                /\ chains[tg][1].title = "OneShotAnswer"
                /\ chains[tg][1].question[7] = tg[2]
                /\ chains[tg][1].question[3] = questions[tg[1]].content

\* the root of the chain of nodes_for_answer_with_review was sent as the
\* input of a request of its own and got its response
C23_Witness ==
    \E i \in 1..Len(log) :
       /\ chains[log[i].tgt][Len(chains[log[i].tgt])].id = "reviewed"
       /\ log[i].node = 1
       /\ ~ chains[log[i].tgt][1].is_instruction
       /\ log[i].params.input = chains[log[i].tgt][1].question
       /\ log[i].params.instructions = << >>
       /\ AnsweredRequest(i)
       /\ IsAnswered(chains[log[i].tgt][1])

\* the text of the response that thread c itself got for node n
OwnResponseText(c, n) ==
    OutputText(CHOOSE i \in RequestsOf(c) :
                  log[i].node = n /\ AnsweredRequest(i))

\* C24: a background thread whose chain completed writes the node files
\* and info.json only after its own registration is gone from the
\* in-flight map, and the file it writes for a node that it answered
\* itself holds the text of the response that this same run got for the
\* node.
C24_FinalWritesOwnResponses ==
    [][\A c \in Calls :
          (tpc[c] = "fin_write" /\ tcur'[c] # tcur[c])
             => /\ << AnswerIdOf(c), c >> \notin threads
                /\ AnsweredBy(c, tcur[c])
                      => files'[NodePath(ctgt[c], ChainOf(c)[tcur[c]].title)]
                            = OwnResponseText(c, tcur[c])]_vars

\* call c has entered callnode, for the node it was called on and for the
\* ancestors that are sent first, and has sent nothing yet
JustEntered(c) ==
    /\ tmode[c] = "direct"
    /\ tpc[c] = "request"
    /\ RequestsOf(c) = {}

\* the t that the entry of call c for a node compares with: line 57 hands
\* the t of the caller's frame to the nested call, where line 53 leaves it
\* as it is
EntryTimestamp(c, n) == tt[c]

\* C25 as stated: every entry into callnode, the nested entries for the
\* ancestors included, compares with a timestamp read from the clock at
\* that entry, which is not older than the newest reading of the clock.
C25_FreshTimestampPerEntry ==
    \A c \in Calls :
       JustEntered(c)
          => \A k \in 1..(Len(stack[c]) - 1) :
                EntryTimestamp(c, stack[c][k]) >= clock

\* C25 amended: a call of callnode with a timestamp t uses this one t in
\* every entry, the nested entries for the ancestors included: the
\* entries made are those for the node and for each ancestor reached
\* through parents that are no instruction carriers and were last answered
\* before t, and the first node sent has no such parent.
C25_OneTimestampPerCall ==
    \A c \in Calls :
       JustEntered(c)
          => /\ tt[c] >= 0
             /\ stack[c][Len(stack[c])] = tnode[c]
             /\ \A k \in 1..(Len(stack[c]) - 1) :
                   /\ EntryTimestamp(c, stack[c][k]) = tt[c]
                   /\ stack[c][k] = ChainOf(c)[stack[c][k + 1]].parent
                   /\ ChainOf(c)[stack[c][k]].last_answered < tt[c]
                   /\ ~ ChainOf(c)[stack[c][k]].is_instruction
             /\ LET p == ChainOf(c)[Head(stack[c])].parent IN
                   \/ p = 0
                   \/ ChainOf(c)[p].is_instruction
                   \/ ChainOf(c)[p].last_answered >= tt[c]

\* a call with a timestamp later than the newest reading of the clock
\* made two nested entries, the second for an ancestor that was answered
\* at that newest reading
C25_Witness ==
    \E c \in Calls :
       /\ JustEntered(c)
       /\ Len(stack[c]) > 2
       /\ tt[c] > clock
       /\ ChainOf(c)[stack[c][1]].last_answered = clock
       /\ ~ ParentIsStale(ChainOf(c), stack[c][2], clock)

\* callnode has been called on descendants of node a of chain tg only
OnlyDescendantsCalled(tg, a) ==
    \A c \in Calls :
       (tmode[c] = "direct" /\ ctgt[c] = tg) => tnode[c] > a

\* C26: as long as callnode has been called on descendants of an
\* instruction carrier only, no request was made for the instruction
\* carrier or with its text as input, the callback was never called for
\* it, and it has no response handle, the empty response text,
\* last-answered -1 and elapsed time 0.
C26_InstructionNeverDispatched ==
    \A tg \in DOMAIN chains :
       \A a \in 1..Len(chains[tg]) :
          (chains[tg][a].is_instruction /\ OnlyDescendantsCalled(tg, a))
             => /\ \A i \in 1..Len(log) :
                      log[i].tgt = tg
                         => /\ log[i].node # a
                            /\ log[i].params.input # chains[tg][a].question
                /\ \A j \in 1..Len(cblog) :
                      cblog[j].tgt = tg => cblog[j].node # a
                /\ chains[tg][a].response = 0
                /\ chains[tg][a].response_content = ""
                /\ chains[tg][a].last_answered = -1
                /\ chains[tg][a].time_taken = 0

\* two calls with a callback on descendants of the instruction carrier
\* have returned, the child of the instruction carrier was sent with its
\* text as instructions and called back, and the instruction carrier has
\* its initial fields
C26_Witness ==
    \E c, d \in Calls :
       /\ c # d
       /\ tmode[c] = "direct" /\ tpc[c] = "done" /\ tcb[c]
       /\ tmode[d] = "direct" /\ tpc[d] = "done"
       /\ ctgt[c] = ctgt[d]
       /\ ChainOf(c)[1].is_instruction
       /\ OnlyDescendantsCalled(ctgt[c], 1)
       /\ tnode[c] > 2
       /\ \E i \in RequestsOf(c) :
             /\ log[i].node = 2
             /\ log[i].params.instructions = ChainOf(c)[1].question
       /\ \E j \in CallbacksOf(c) : cblog[j].node = 2
       /\ ChainOf(c)[1].last_answered = -1
       /\ ChainOf(c)[1].response_content = ""

\* C27: the in-flight map is one for all Question objects and the lock is
\* one per Question object. Two callers are inside their check and
\* register steps at the same time only on different Question objects;
\* and a caller that makes its check while the map holds its answer id,
\* registered through whichever Question object, returns "already
\* answering" without starting a thread or touching the map, while one
\* that does not find its id goes on to register.
C27_SharedMapOwnLocks ==
    /\ [](\A c, d \in Calls :
            (c # d /\ CallerInMapStep(c) /\ CallerInMapStep(d))
               => ctgt[c][1] # ctgt[d][1])
    /\ [][\A d \in Calls :
            (cpc[d] = "check" /\ cpc'[d] # "check")
               => IF \E e \in threads : e[1] = AnswerIdOf(d)
                  THEN /\ cres'[d] = "already"
                       /\ cpc'[d] = "release"
                       /\ tpc'[d] = "idle"
                       /\ threads' = threads
                  ELSE cpc'[d] = "register"]_vars

\* a caller on one Question object has registered its thread and is still
\* inside its with block when a caller on another Question object with
\* the same answer id, inside its own with block, has found the id and
\* is about to return without a thread
C27_Witness ==
    \E c, d \in Calls :
       /\ cpc[c] = "release" /\ cres[c] = "started"
       /\ cpc[d] = "release" /\ cres[d] = "already"
       /\ ctgt[c][1] # ctgt[d][1]
       /\ AnswerIdOf(c) = AnswerIdOf(d)
       /\ lock[ctgt[c][1]] = c
       /\ lock[ctgt[d][1]] = d
       /\ << AnswerIdOf(d), c >> \in threads
       /\ tpc[d] = "idle"

\* thread d, started for a question and project of which another thread
\* is done, enters callnode
NewRunEnters(d) ==
    /\ tmode[d] = "bg"
    /\ tpc[d] = "enter"
    /\ tpc'[d] = "request"
    /\ \E c \in Calls \ {d} :
          /\ tmode[c] = "bg"
          /\ tpc[c] = "done"
          /\ ctgt[c] = ctgt[d]
          /\ << AnswerIdOf(c), c >> \notin threads

RECURSIVE NonInstructionFrom(_, _)
\* the nodes of a chain from position n on that are no instruction
\* carriers, root first
NonInstructionFrom(chain, n) ==
    IF n > Len(chain) THEN << >>
    ELSE (IF chain[n].is_instruction THEN << >> ELSE << n >>)
         \o NonInstructionFrom(chain, n + 1)

C29_DistinctIdsDistinctFolders ==
    \A c, d \in Calls :
       (tmode[c] = "bg" /\ tmode[d] = "bg"
          /\ AnswerIdOf(c) # AnswerIdOf(d))
          => /\ folder_for_project(QuestionOf(c), ProjectNameOf(c)) #
                   folder_for_project(QuestionOf(d), ProjectNameOf(d))
             /\ InfoPath(ctgt[c]) # InfoPath(ctgt[d])
             /\ IndexPath(ctgt[c]) # IndexPath(ctgt[d])

\* call c is waiting for the lock of its Question or is inside a with
\* block of answer_for_project or _answer_finished
AtLock(c) ==
    \/ cpc[c] \in {"acquire", "check", "register", "release"}
    \/ tpc[c] \in {"fin_acquire", "fin_del", "fin_release"}
    \/ \E qo \in DOMAIN lock : lock[qo] \in {c, -c}

\* C30: as long as the scheduler runs, no caller and no thread stays for
\* ever at the lock: a caller waiting at line 162 gets the lock and leaves
\* its with block with the lock given back, on the "already answering"
\* way out as well, and a thread waiting at line 189 gets the lock and
\* gives it back after its delete. (A call is at the lock for one stretch
\* as a caller and one as a thread, so all of them being away from it
\* again and again is each of them leaving each stretch.)
C30_LockGrantedAndReleased ==
    []<>(\A c \in Calls : ~ AtLock(c))

\* a thread has run its chain and waits at line 189 for the lock that the
\* caller who started it still holds, while another caller waits at line
\* 162 for the same lock
C30_Witness ==
    \E c, d \in Calls :
       /\ tpc[c] = "fin_acquire"
       /\ cpc[c] = "release"
       /\ lock[ctgt[c][1]] = c
       /\ cpc[d] = "acquire"
       /\ ctgt[d] = ctgt[c]

====
